---- MODULE Spec2Model ----
(***************************************************************************)
(* Model of the summarizer: the chunker (src/chunker.ts) and the two       *)
(* versions of the recursive reducer (summarizer.ts with token tracking,   *)
(* and the earlier plain summarizer.ts).                                   *)
(*                                                                         *)
(* A string is a sequence of one-character strings; indices of the source  *)
(* are 0-based and are translated to the 1-based indices of Sequences at   *)
(* the point of access only.                                               *)
(***************************************************************************)
EXTENDS Integers, Sequences, FiniteSets, TLC

(***************************************************************************)
(* Bounds of the model.                                                    *)
(***************************************************************************)
MaxLen == 5
PadLen == 7
MaxChunkSize == 4
BigChunkSize == 10
MaxOverlap == 4
MaxIters == 16
MaxTail == 2
ReducerPad == 9
MaxReducerOverlap == 1
MaxLevel == 2
MaxOdd == 1
ExampleChunkSize == 16

(***************************************************************************)
(* Program constants.                                                      *)
(***************************************************************************)
WORD_WINDOW == 50
CHARS_PER_TOKEN == 4
SENTENCE_WINDOW_DIV == 5
BATCH_SIZE == 10

Alphabet == {"a", " ", ".", "\n"}
Whitespace == {" ", "\n"}

Max(a, b) == IF a >= b THEN a ELSE b
Min(a, b) == IF a <= b THEN a ELSE b

StringsUpTo(n) == UNION {[1..k -> Alphabet] : k \in 0..n}
Rep(c, n) == [k \in 1..n |-> c]

(***************************************************************************)
(* String primitives of the language runtime, as the source uses them.     *)
(***************************************************************************)
\* String.prototype.slice(s, e) for non-negative s, e: both ends are clamped
\* to the length, and an end at or before the start gives "".
slice(t, s, e) ==
    LET s1 == Min(Max(s, 0), Len(t))
        e1 == Min(Max(e, 0), Len(t))
    IN  IF e1 <= s1 THEN <<>> ELSE SubSeq(t, s1 + 1, e1)

\* String.prototype.lastIndexOf(pat): 0-based index of the last occurrence,
\* -1 when there is none.
lastIndexOf(t, pat) ==
    LET hits == {k \in 0..(Len(t) - Len(pat)) : SubSeq(t, k + 1, k + Len(pat)) = pat}
    IN  IF hits = {} THEN -1 ELSE CHOOSE k \in hits : \A j \in hits : j <= k

\* a trim that removes trailing whitespace only
trimEndOnly(t) ==
    LET keep == {k \in 1..Len(t) : t[k] \notin Whitespace}
    IN  IF keep = {} THEN <<>>
        ELSE SubSeq(t, 1, CHOOSE k \in keep : \A j \in keep : j <= k)

\* String.prototype.trim()
trim(t) ==
    LET keep == {k \in 1..Len(t) : t[k] \notin Whitespace}
    IN  IF keep = {} THEN <<>>
        ELSE LET lo == CHOOSE k \in keep : \A j \in keep : k <= j
                 hi == CHOOSE k \in keep : \A j \in keep : j <= k
             IN  SubSeq(t, lo, hi)

\* Array.prototype.join(sep)
RECURSIVE join(_, _)
join(ss, sep) ==
    IF Len(ss) = 0 THEN <<>>
    ELSE IF Len(ss) = 1 THEN ss[1]
    ELSE ss[1] \o sep \o join(Tail(ss), sep)

(***************************************************************************)
(* chunker.ts                                                              *)
(***************************************************************************)
sentenceEnders == << <<".", " ">>, <<"!", " ">>, <<"?", " ">>,
                     <<".", "\n">>, <<"!", "\n">>, <<"?", "\n">> >>

findSentenceBoundary(t, searchStart, searchEnd) ==
    LET searchText == slice(t, searchStart, searchEnd)
        idx == {lastIndexOf(searchText, sentenceEnders[k]) : k \in 1..Len(sentenceEnders)}
        bestIndex == CHOOSE b \in idx : \A j \in idx : j <= b
    IN  IF bestIndex # -1 THEN searchStart + bestIndex + 1 ELSE -1

\* a word-boundary search that looks for the next space after the target
findWordBoundaryForward(t, targetIndex) ==
    LET searchText == slice(t, targetIndex, targetIndex + WORD_WINDOW)
        hits == {k \in 0..(Len(searchText) - 1) : searchText[k + 1] = " "}
    IN  IF hits # {} THEN targetIndex + (CHOOSE k \in hits : \A j \in hits : k <= j) + 1 ELSE -1

findWordBoundary(t, targetIndex) ==
    LET searchStart == Max(0, targetIndex - WORD_WINDOW)
        searchText == slice(t, searchStart, targetIndex)
        lastSpace == lastIndexOf(searchText, <<" ">>)
    IN  IF lastSpace # -1 THEN searchStart + lastSpace + 1 ELSE -1

estimateTokenCount(t) == (Len(t) + CHARS_PER_TOKEN - 1) \div CHARS_PER_TOKEN

\* an end index that prefers the word boundary to the sentence boundary
chooseEndIndexWordFirst(t, size, start) ==
    LET endIndex == start + size
    IN  IF endIndex < Len(t)
        THEN LET searchStart == endIndex - (size \div SENTENCE_WINDOW_DIV)
                 sentenceEnd == findSentenceBoundary(t, searchStart, endIndex)
                 wordBoundary == findWordBoundary(t, endIndex)
             IN  IF wordBoundary # -1 THEN wordBoundary
                 ELSE IF sentenceEnd # -1 THEN sentenceEnd
                 ELSE endIndex
        ELSE Len(t)

\* lines 30-51 of chunkText: the end index chosen for the chunk that starts
\* at start.
chooseEndIndex(t, size, start) ==
    LET endIndex == start + size
    IN  IF endIndex < Len(t)
        THEN LET searchStart == endIndex - (size \div SENTENCE_WINDOW_DIV)
                 sentenceEnd == findSentenceBoundary(t, searchStart, endIndex)
                 wordBoundary == findWordBoundary(t, endIndex)
             IN  IF sentenceEnd # -1 THEN sentenceEnd
                 ELSE IF wordBoundary # -1 THEN wordBoundary
                 ELSE endIndex
        ELSE Len(t)

\* forced progress that steps over the character at endIndex
advanceSkips(start, endIndex, overlap) ==
    LET nextStart == endIndex - overlap
    IN  IF nextStart <= start THEN endIndex + 1 ELSE nextStart

\* lines 59-67 of chunkText: the start index of the next iteration.
advance(start, endIndex, overlap) ==
    LET nextStart == endIndex - overlap
    IN  IF nextStart <= start THEN endIndex ELSE nextStart

\* a fast path that misses the text of exactly chunkSize characters
fitsOneChunkStrict(t, size) == Len(t) < size

\* line 22 of chunkText: the small-text fast path.
fitsOneChunk(t, size) == Len(t) <= size

\* an iteration that pushes the chunk without looking at its length
chunkStepKeepsEmpty(t, size, overlap, start, acc) ==
    LET endIndex == chooseEndIndex(t, size, start)
        chunk == trim(slice(t, start, endIndex))
        next == advance(start, endIndex, overlap)
    IN  [endIndex |-> endIndex,
         chunks |-> Append(acc, chunk),
         startIndex |-> next,
         break |-> next >= Len(t)]

\* One iteration of the while loop of chunkText (lines 28-73) from the cursor
\* start with the chunks acc collected so far.
chunkStep(t, size, overlap, start, acc) ==
    LET endIndex == chooseEndIndex(t, size, start)
        chunk == trim(slice(t, start, endIndex))
        next == advance(start, endIndex, overlap)
    IN  [endIndex |-> endIndex,
         chunks |-> IF Len(chunk) > 0 THEN Append(acc, chunk) ELSE acc,
         startIndex |-> next,
         break |-> next >= Len(t)]

\* The while loop of chunkText as a function. A loop that comes back to the
\* state it started an iteration in never ends: hang is then TRUE. fuel
\* bounds the unfolding; running out of it is reported as a hang as well.
RECURSIVE chunkLoop(_, _, _, _, _, _)
chunkLoop(t, size, overlap, start, acc, fuel) ==
    IF ~(start < Len(t)) THEN [hang |-> FALSE, chunks |-> acc]
    ELSE LET st == chunkStep(t, size, overlap, start, acc)
         IN  IF st.break THEN [hang |-> FALSE, chunks |-> st.chunks]
             ELSE IF fuel = 0 \/ (st.startIndex = start /\ st.chunks = acc)
                  THEN [hang |-> TRUE, chunks |-> <<>>]
             ELSE chunkLoop(t, size, overlap, st.startIndex, st.chunks, fuel - 1)

\* chunkText(text, {chunkSize, chunkOverlap}) as a function of its arguments.
chunkText(t, size, overlap) ==
    IF fitsOneChunk(t, size) THEN [hang |-> FALSE, chunks |-> <<t>>]
    ELSE chunkLoop(t, size, overlap, 0, <<>>, Len(t) + 1)

NoRange == [s |-> -1, e |-> -1]

VARIABLES
    text,          \* the text parameter of chunkText / recursiveSummarize
    chunkSize,     \* options.chunkSize
    chunkOverlap,  \* options.chunkOverlap
    cpc,           \* position in chunkText: "idle", "entry", "loop", "done"
    startIndex,    \* the cursor of chunkText
    chunks,        \* the chunks array
    iters,         \* completed loop iterations (saturates at MaxIters)
    firstRange,    \* [startIndex, endIndex) of the first iteration
    prevRange,     \* [startIndex, endIndex) of the iteration before the last
    lastRange,     \* [startIndex, endIndex) of the last iteration
    covered        \* source indices inside some extracted range

cvars == <<cpc, startIndex, iters, firstRange, prevRange, lastRange, covered>>

VARIABLES
    variant,            \* which summarizer.ts runs: "tracking" or "plain"
    rpc,                \* position in summarizeText / recursiveSummarize
    level,              \* the level parameter of the running frame
    batchStart,         \* loop variable of the batch loop
    i,                  \* loop variable of the chunk loop
    batch,              \* the batch array
    chunkSummaries,     \* the chunkSummaries array
    levelInputTokens,   \* level counter
    levelOutputTokens,  \* level counter
    stack,              \* the frames waiting for their recursive call
    ret,                \* the value the running frame returned
    originalLength,     \* summarizeText's originalLength
    result,             \* what summarizeText resolved with
    error,              \* what summarizeText rejected with
    calls,              \* every request sent to the LLM API, in order
    resps,              \* every response of the LLM API, in order
    levelChunks,        \* per level entered: how many chunks chunkText gave it
    odd                 \* responses so far that were not the default one

rvars == <<variant, rpc, level, batchStart, i, batch, chunkSummaries,
           levelInputTokens, levelOutputTokens, stack, ret, originalLength,
           result, error, calls, resps, levelChunks, odd>>

VARIABLE
    peer                \* the other summarizeText request of the process, parked
                        \* at one of its awaits (or not started, or finished)

vars == <<text, chunkSize, chunkOverlap, chunks, cvars, rvars, peer>>

\* chunkText, lines 17-26: the fast path, or the start of the loop.
ChunkEnter ==
    /\ cpc = "entry"
    /\ IF fitsOneChunk(text, chunkSize)
       THEN /\ chunks' = <<text>>
            /\ cpc' = "done"
       ELSE /\ chunks' = <<>>
            /\ cpc' = IF 0 < Len(text) THEN "loop" ELSE "done"
    /\ startIndex' = 0
    /\ iters' = 0
    /\ firstRange' = NoRange
    /\ prevRange' = NoRange
    /\ lastRange' = NoRange
    /\ covered' = {}
    /\ UNCHANGED <<text, chunkSize, chunkOverlap, rvars>>
    /\ UNCHANGED peer

\* chunkText, lines 28-73: one iteration of the while loop.
ChunkIter ==
    /\ cpc = "loop"
    /\ LET st == chunkStep(text, chunkSize, chunkOverlap, startIndex, chunks)
           range == [s |-> startIndex, e |-> st.endIndex]
       IN  /\ chunks' = st.chunks
           /\ startIndex' = st.startIndex
           /\ cpc' = IF st.break THEN "done" ELSE "loop"
           /\ firstRange' = IF iters = 0 THEN range ELSE firstRange
           /\ prevRange' = lastRange
           /\ lastRange' = range
           /\ covered' = covered \cup
                  {k \in 0..(Len(text) - 1) : startIndex <= k /\ k < st.endIndex}
    /\ iters' = IF iters < MaxIters THEN iters + 1 ELSE iters
    /\ UNCHANGED <<text, chunkSize, chunkOverlap, rvars>>
    /\ UNCHANGED peer

(***************************************************************************)
(* summarizer.ts: the LLM API and summarizeChunk                           *)
(***************************************************************************)
Undefined == -1

\* What client.chat.completions.create can do: throw, or resolve with a
\* completion whose content and usage the provider chose. The default
\* response is a one-character summary with usage 10 in / 5 out.
Usage(p, c) == [prompt_tokens |-> p, completion_tokens |-> c]
Thrown(m) == [kind |-> "throw", content |-> <<>>, usage |-> Usage(Undefined, Undefined), msg |-> m]
Completion(c, u) == [kind |-> "ok", content |-> c, usage |-> u, msg |-> ""]

DefaultUsage == Usage(10, 5)
DefaultResponse == Completion(<<"s">>, DefaultUsage)
OddResponses ==
    { Completion(<<" ", "s", "\n">>, DefaultUsage),
      Completion(<<"s", "s", " ", "s", "s">>, DefaultUsage),
      Completion(<<"s">>, Usage(Undefined, Undefined)) }
FailingResponses ==
    { Thrown("boom"),
      Completion(<<>>, DefaultUsage),
      Completion(<<" ">>, DefaultUsage) }
Responses == {DefaultResponse} \cup OddResponses \cup FailingResponses

FailedPrefix == "Failed to summarize chunk: "
EmptyMessage == "Empty response from LLM"

\* a summarizeChunk that swallows the failure of the API
summarizeChunkSwallows(r) ==
    [ok |-> TRUE, summary |-> trim(r.content),
     inputTokens |-> 0, outputTokens |-> 0, error |-> <<>>]

\* a summarizeChunk without the test for an empty summary
summarizeChunkAcceptsEmpty(r) ==
    IF r.kind = "throw"
    THEN [ok |-> FALSE, summary |-> <<>>, inputTokens |-> 0, outputTokens |-> 0,
          error |-> <<"Failed to summarize chunk: ", r.msg>>]
    ELSE [ok |-> TRUE, summary |-> trim(r.content),
          inputTokens |-> IF r.usage.prompt_tokens = -1 THEN 0 ELSE r.usage.prompt_tokens,
          outputTokens |-> IF r.usage.completion_tokens = -1 THEN 0 ELSE r.usage.completion_tokens,
          error |-> <<>>]

\* usage?.prompt_tokens || 0
orZero(x) == IF x = Undefined \/ x = 0 THEN 0 ELSE x

\* summarizeChunk on the response r of the API (lines 51-81): the value it
\* returns, or the error it throws.
summarizeChunk(r) ==
    LET summary == trim(r.content)
    IN  IF r.kind = "throw"
        THEN [ok |-> FALSE, summary |-> <<>>, inputTokens |-> 0, outputTokens |-> 0,
              error |-> <<FailedPrefix, r.msg>>]
        ELSE IF summary = <<>>
        THEN [ok |-> FALSE, summary |-> <<>>, inputTokens |-> 0, outputTokens |-> 0,
              error |-> <<FailedPrefix, EmptyMessage>>]
        ELSE [ok |-> TRUE, summary |-> summary,
              inputTokens |-> orZero(r.usage.prompt_tokens),
              outputTokens |-> orZero(r.usage.completion_tokens),
              error |-> <<>>]

\* a base-case test that is strict
withinMaxTokensStrict(tokens, size) == CHARS_PER_TOKEN * tokens < size

\* estimatedTokens <= maxTokens with maxTokens = chunkSize / 4, a real number
withinMaxTokens(tokens, size) == CHARS_PER_TOKEN * tokens <= size

Separator == <<"\n", "\n">>

\* the recursion test of recursiveSummarize (line 158 / line 119)
shouldRecurse(combinedTokens, size, chunksLength) ==
    ~withinMaxTokens(combinedTokens, size) /\ chunksLength > 1

\* a fold that overwrites the counter
foldTokensOverwrites(counter, reported) == reported

\* lines 139-140, 165-166, 181-182: a counter is folded into another by sum
foldTokens(counter, reported) == counter + reported

\* a batch that starts one chunk early
nextBatchEarly(cs, start) ==
    slice(cs, Max(start - 1, 0), Min(start + BATCH_SIZE, Len(cs)))

\* lines 128-129: the batch that starts at batchStart
nextBatch(cs, start) == slice(cs, start, Min(start + BATCH_SIZE, Len(cs)))

\* line 148: the token-tracking version empties the chunks array
clearChunks(v, cs) == IF v = "tracking" THEN <<>> ELSE cs

NoRet == [summary |-> <<>>, levels |-> 0, chunks |-> 0, inputTokens |-> 0, outputTokens |-> 0]
NoResult == [summary |-> <<>>, originalLength |-> -1, summaryLength |-> -1,
             chunksProcessed |-> -1, recursionLevels |-> -1,
             inputTokens |-> -1, outputTokens |-> -1, totalTokens |-> -1]

\* No other request in the process.
NoPeer ==
    [text |-> <<>>, chunkSize |-> 0, chunkOverlap |-> 0, chunks |-> <<>>,
     variant |-> "plain", rpc |-> "none", level |-> 0, batchStart |-> 0, i |-> 0,
     batch |-> <<>>, chunkSummaries |-> <<>>, levelInputTokens |-> 0,
     levelOutputTokens |-> 0, stack |-> <<>>, ret |-> NoRet, originalLength |-> 0,
     result |-> NoResult, error |-> <<>>, calls |-> <<>>, resps |-> <<>>,
     levelChunks |-> <<>>, odd |-> 0, interleaved |-> FALSE]

Request(t, k, n) == [text |-> t, kind |-> k, level |-> level, index |-> n]

Respond(r) ==
    /\ r \in OddResponses => odd < MaxOdd
    /\ odd' = IF r \in OddResponses THEN odd + 1 ELSE odd
    /\ resps' = Append(resps, r)

Reject(e) ==
    /\ error' = e
    /\ rpc' = "failed"

\* summarizeText, lines 189-211: up to the call of recursiveSummarize
SummarizeText ==
    /\ rpc = "start"
    /\ originalLength' = Len(text)
    /\ level' = 1
    /\ rpc' = "enter"
    /\ UNCHANGED <<text, chunkSize, chunkOverlap, chunks, cvars, variant, batchStart, i,
                   batch, chunkSummaries, levelInputTokens, levelOutputTokens, stack,
                   ret, result, error, calls, resps, levelChunks, odd>>
    /\ UNCHANGED peer

\* recursiveSummarize, lines 93-137: the base-case test, then either the
\* direct call or chunkText and the first chunk call.
RecursiveSummarize ==
    /\ rpc = "enter"
    /\ IF withinMaxTokens(estimateTokenCount(text), chunkSize)
       THEN /\ calls' = Append(calls, Request(text, "direct", 0))
            /\ rpc' = "awaitDirect"
            /\ UNCHANGED <<chunks, batchStart, i, batch, chunkSummaries,
                           levelInputTokens, levelOutputTokens, levelChunks>>
       ELSE LET split == chunkText(text, chunkSize, chunkOverlap)
                first == nextBatch(split.chunks, 0)
            IN  IF split.hang
                THEN /\ rpc' = "hung"
                     /\ UNCHANGED <<chunks, batchStart, i, batch, chunkSummaries,
                                    levelInputTokens, levelOutputTokens, levelChunks, calls>>
                ELSE /\ chunks' = split.chunks
                     /\ levelChunks' = Append(levelChunks, Len(split.chunks))
                     /\ chunkSummaries' = <<>>
                     /\ levelInputTokens' = 0
                     /\ levelOutputTokens' = 0
                     /\ batchStart' = 0
                     /\ i' = 0
                     /\ batch' = IF variant = "tracking" THEN first ELSE <<>>
                     /\ IF Len(split.chunks) > 0
                        THEN /\ calls' = Append(calls, Request(split.chunks[1], "chunk", 0))
                             /\ rpc' = "awaitChunk"
                        ELSE /\ rpc' = "combine"
                             /\ UNCHANGED calls
    /\ UNCHANGED <<text, chunkSize, chunkOverlap, cvars, variant, level, stack, ret,
                   originalLength, result, error, resps, odd>>
    /\ UNCHANGED peer

\* recursiveSummarize, lines 101-111: the direct call returned
DirectResponse(r) ==
    /\ rpc = "awaitDirect"
    /\ Respond(r)
    /\ LET res == summarizeChunk(r)
       IN  IF res.ok
           THEN /\ ret' = [summary |-> res.summary, levels |-> level, chunks |-> 1,
                           inputTokens |-> IF variant = "tracking" THEN res.inputTokens ELSE 0,
                           outputTokens |-> IF variant = "tracking" THEN res.outputTokens ELSE 0]
                /\ rpc' = "return"
                /\ UNCHANGED error
           ELSE /\ Reject(res.error)
                /\ UNCHANGED ret
    /\ UNCHANGED <<text, chunkSize, chunkOverlap, chunks, cvars, variant, level, batchStart,
                   i, batch, chunkSummaries, levelInputTokens, levelOutputTokens, stack,
                   originalLength, result, calls, levelChunks>>
    /\ UNCHANGED peer

\* recursiveSummarize, lines 127-145 (lines 105-109 of the plain version):
\* the call for chunk batchStart + i returned; the loops run on to the next
\* call or to their end.
ChunkResponse(r) ==
    /\ rpc = "awaitChunk"
    /\ Respond(r)
    /\ LET res == summarizeChunk(r)
           tracking == variant = "tracking"
           i1 == i + 1
           \* the inner loop is over when i1 reaches batch.length
           innerDone == tracking /\ i1 >= Len(batch)
           batchStart1 == IF innerDone THEN batchStart + BATCH_SIZE ELSE batchStart
           batch1 == IF innerDone
                     THEN nextBatch(chunks, batchStart1)
                     ELSE IF tracking THEN [batch EXCEPT ![i + 1] = <<>>]
                     ELSE batch
           i2 == IF innerDone THEN 0 ELSE i1
           loopsDone == IF tracking THEN innerDone /\ ~(batchStart1 < Len(chunks))
                        ELSE ~(i1 < Len(chunks))
           nextChunk == IF tracking THEN batch1[i2 + 1] ELSE chunks[i2 + 1]
       IN  IF res.ok
           THEN /\ chunkSummaries' = Append(chunkSummaries, res.summary)
                /\ levelInputTokens' = IF tracking THEN foldTokens(levelInputTokens, res.inputTokens) ELSE 0
                /\ levelOutputTokens' = IF tracking THEN foldTokens(levelOutputTokens, res.outputTokens) ELSE 0
                /\ batchStart' = batchStart1
                /\ batch' = batch1
                /\ i' = i2
                /\ IF loopsDone
                   THEN /\ rpc' = "combine"
                        /\ UNCHANGED calls
                   ELSE /\ rpc' = "awaitChunk"
                        /\ calls' = Append(calls, Request(nextChunk, "chunk", batchStart1 + i2))
                /\ UNCHANGED error
           ELSE /\ Reject(res.error)
                /\ UNCHANGED <<chunkSummaries, levelInputTokens, levelOutputTokens,
                               batchStart, batch, i, calls>>
    /\ UNCHANGED <<text, chunkSize, chunkOverlap, chunks, cvars, variant, level, stack, ret,
                   originalLength, result, levelChunks>>
    /\ UNCHANGED peer

\* recursiveSummarize, lines 147-172 (lines 111-131 of the plain version):
\* join the summaries, then recurse or send the final call.
Combine ==
    /\ rpc = "combine"
    /\ LET chunks1 == clearChunks(variant, chunks)
           combinedSummaries == join(chunkSummaries, Separator)
           combinedTokens == estimateTokenCount(combinedSummaries)
       IN  /\ chunks' = chunks1
           /\ IF shouldRecurse(combinedTokens, chunkSize, Len(chunks1))
              THEN /\ level < MaxLevel
                   /\ stack' = Append(stack, [text |-> text, chunks |-> chunks1, level |-> level,
                                              levelInputTokens |-> levelInputTokens,
                                              levelOutputTokens |-> levelOutputTokens])
                   /\ text' = combinedSummaries
                   /\ level' = level + 1
                   /\ rpc' = "enter"
                   /\ UNCHANGED calls
              ELSE /\ calls' = Append(calls, Request(combinedSummaries, "final", 0))
                   /\ rpc' = "awaitFinal"
                   /\ UNCHANGED <<stack, text, level>>
    /\ UNCHANGED <<chunkSize, chunkOverlap, cvars, variant, batchStart, i, batch,
                   chunkSummaries, levelInputTokens, levelOutputTokens, ret,
                   originalLength, result, error, resps, levelChunks, odd>>
    /\ UNCHANGED peer

\* recursiveSummarize, lines 172-183 (lines 131-137): the final call returned
FinalResponse(r) ==
    /\ rpc = "awaitFinal"
    /\ Respond(r)
    /\ LET res == summarizeChunk(r)
           tracking == variant = "tracking"
       IN  IF res.ok
           THEN /\ ret' = [summary |-> res.summary, levels |-> level, chunks |-> Len(chunks),
                           inputTokens |-> IF tracking THEN foldTokens(levelInputTokens, res.inputTokens) ELSE 0,
                           outputTokens |-> IF tracking THEN foldTokens(levelOutputTokens, res.outputTokens) ELSE 0]
                /\ chunkSummaries' = IF tracking THEN <<>> ELSE chunkSummaries
                /\ rpc' = "return"
                /\ UNCHANGED error
           ELSE /\ Reject(res.error)
                /\ UNCHANGED <<ret, chunkSummaries>>
    /\ UNCHANGED <<text, chunkSize, chunkOverlap, chunks, cvars, variant, level, batchStart,
                   i, batch, levelInputTokens, levelOutputTokens, stack,
                   originalLength, result, calls, levelChunks>>
    /\ UNCHANGED peer

\* recursiveSummarize, lines 160-167 (lines 121-126): the recursive call
\* returned to the frame that made it
ReturnToParent ==
    /\ rpc = "return"
    /\ stack # <<>>
    /\ LET frame == stack[Len(stack)]
       IN  /\ ret' = [summary |-> ret.summary, levels |-> ret.levels,
                      chunks |-> Len(frame.chunks) + ret.chunks,
                      inputTokens |-> foldTokens(frame.levelInputTokens, ret.inputTokens),
                      outputTokens |-> foldTokens(frame.levelOutputTokens, ret.outputTokens)]
           /\ text' = frame.text
           /\ chunks' = frame.chunks
           /\ level' = frame.level
           /\ stack' = SubSeq(stack, 1, Len(stack) - 1)
    /\ UNCHANGED <<chunkSize, chunkOverlap, cvars, variant, rpc, batchStart,
                   i, batch, chunkSummaries, levelInputTokens, levelOutputTokens,
                   originalLength, result, error, calls, resps, levelChunks, odd>>
    /\ UNCHANGED peer

\* a wrapper that leaves the output tokens out of the total
wrapResultInputOnly(r, origLen, v) ==
    [summary |-> r.summary,
     originalLength |-> origLen,
     summaryLength |-> Len(r.summary),
     chunksProcessed |-> r.chunks,
     recursionLevels |-> r.levels,
     inputTokens |-> IF v = "tracking" THEN r.inputTokens ELSE Undefined,
     outputTokens |-> IF v = "tracking" THEN r.outputTokens ELSE Undefined,
     totalTokens |-> IF v = "tracking" THEN r.inputTokens ELSE Undefined]

\* summarizeText, lines 213-236 (lines 162-178): the SummarizationResult made
\* of the value r of recursiveSummarize; the plain version has no token fields
wrapResult(r, origLen, v) ==
    [summary |-> r.summary,
     originalLength |-> origLen,
     summaryLength |-> Len(r.summary),
     chunksProcessed |-> r.chunks,
     recursionLevels |-> r.levels,
     inputTokens |-> IF v = "tracking" THEN r.inputTokens ELSE Undefined,
     outputTokens |-> IF v = "tracking" THEN r.outputTokens ELSE Undefined,
     totalTokens |-> IF v = "tracking" THEN r.inputTokens + r.outputTokens ELSE Undefined]

\* summarizeText, lines 211-236 (lines 160-178): wrap the result
SummarizeTextReturn ==
    /\ rpc = "return"
    /\ stack = <<>>
    /\ result' = wrapResult(ret, originalLength, variant)
    /\ rpc' = "done"
    /\ UNCHANGED <<text, chunkSize, chunkOverlap, chunks, cvars, variant, level, batchStart,
                   i, batch, chunkSummaries, levelInputTokens, levelOutputTokens, stack,
                   ret, originalLength, error, calls, resps, levelChunks, odd>>
    /\ UNCHANGED peer

(***************************************************************************)
(* The reducer: summarizeText called with any text and options, the LLM    *)
(* API answering each call as it likes.                                    *)
(***************************************************************************)
ReducerTexts == {Rep("a", p) \o s : p \in {0, ReducerPad}, s \in StringsUpTo(MaxTail)}

Init ==
    /\ text \in ReducerTexts
    /\ chunkSize \in 0..MaxChunkSize
    /\ chunkOverlap \in 0..MaxReducerOverlap
    /\ variant \in {"tracking", "plain"}
    /\ chunks = <<>>
    /\ cpc = "idle"
    /\ startIndex = 0
    /\ iters = 0
    /\ firstRange = NoRange
    /\ prevRange = NoRange
    /\ lastRange = NoRange
    /\ covered = {}
    /\ rpc = "start"
    /\ level = 0
    /\ batchStart = 0
    /\ i = 0
    /\ batch = <<>>
    /\ chunkSummaries = <<>>
    /\ levelInputTokens = 0
    /\ levelOutputTokens = 0
    /\ stack = <<>>
    /\ ret = NoRet
    /\ originalLength = 0
    /\ result = NoResult
    /\ error = <<>>
    /\ calls = <<>>
    /\ resps = <<>>
    /\ levelChunks = <<>>
    /\ odd = 0
    /\ peer = NoPeer

Next ==
    \/ SummarizeText
    \/ RecursiveSummarize
    \/ \E r \in Responses : DirectResponse(r)
    \/ \E r \in Responses : ChunkResponse(r)
    \/ Combine
    \/ \E r \in Responses : FinalResponse(r)
    \/ ReturnToParent
    \/ SummarizeTextReturn

Spec == Init /\ [][Next]_vars

(***************************************************************************)
(* Two requests in one process: the handler of POST /api/summarize calls   *)
(* summarizeText for each request. The process has one thread: a request   *)
(* runs until it awaits a call of the LLM API, returns or throws, and only *)
(* then the other request gets to run.                                     *)
(***************************************************************************)
Awaiting == {"awaitDirect", "awaitChunk", "awaitFinal"}

\* The state of the running request, as it is parked.
Running ==
    [text |-> text, chunkSize |-> chunkSize, chunkOverlap |-> chunkOverlap,
     chunks |-> chunks, variant |-> variant, rpc |-> rpc, level |-> level,
     batchStart |-> batchStart, i |-> i, batch |-> batch,
     chunkSummaries |-> chunkSummaries, levelInputTokens |-> levelInputTokens,
     levelOutputTokens |-> levelOutputTokens, stack |-> stack, ret |-> ret,
     originalLength |-> originalLength, result |-> result, error |-> error,
     calls |-> calls, resps |-> resps, levelChunks |-> levelChunks, odd |-> odd,
     interleaved |-> peer.interleaved \/ (rpc \in Awaiting /\ peer.rpc \in Awaiting)]

\* The running request awaits (or is over) and the event loop runs the other
\* request, which has not started yet or awaits a response. Every variable
\* of a request is a local of its own calls, so it is parked and resumed
\* with the request.
Yield ==
    /\ rpc \in Awaiting \cup {"done", "failed"}
    /\ peer.rpc \in Awaiting \cup {"start"}
    /\ peer' = Running
    /\ text' = peer.text
    /\ chunkSize' = peer.chunkSize
    /\ chunkOverlap' = peer.chunkOverlap
    /\ chunks' = peer.chunks
    /\ variant' = peer.variant
    /\ rpc' = peer.rpc
    /\ level' = peer.level
    /\ batchStart' = peer.batchStart
    /\ i' = peer.i
    /\ batch' = peer.batch
    /\ chunkSummaries' = peer.chunkSummaries
    /\ levelInputTokens' = peer.levelInputTokens
    /\ levelOutputTokens' = peer.levelOutputTokens
    /\ stack' = peer.stack
    /\ ret' = peer.ret
    /\ originalLength' = peer.originalLength
    /\ result' = peer.result
    /\ error' = peer.error
    /\ calls' = peer.calls
    /\ resps' = peer.resps
    /\ levelChunks' = peer.levelChunks
    /\ odd' = peer.odd
    /\ UNCHANGED cvars

\* " aaaaa": a space and a word of more than chunkSize characters, a text
\* on which chunkText does not return
StallText == <<" ">> \o Rep("a", MaxChunkSize + 1)

ConcurrentTexts == {Rep("a", 1), Rep("a", ReducerPad), StallText}
ConcurrentSizes == {MaxChunkSize}

InitConcurrent ==
    /\ text \in ConcurrentTexts
    /\ chunkSize \in ConcurrentSizes
    /\ chunkOverlap = 0
    /\ variant \in {"tracking", "plain"}
    /\ chunks = <<>>
    /\ cpc = "idle"
    /\ startIndex = 0
    /\ iters = 0
    /\ firstRange = NoRange
    /\ prevRange = NoRange
    /\ lastRange = NoRange
    /\ covered = {}
    /\ rpc = "start"
    /\ level = 0
    /\ batchStart = 0
    /\ i = 0
    /\ batch = <<>>
    /\ chunkSummaries = <<>>
    /\ levelInputTokens = 0
    /\ levelOutputTokens = 0
    /\ stack = <<>>
    /\ ret = NoRet
    /\ originalLength = 0
    /\ result = NoResult
    /\ error = <<>>
    /\ calls = <<>>
    /\ resps = <<>>
    /\ levelChunks = <<>>
    /\ odd = 0
    /\ \E t \in ConcurrentTexts, size \in ConcurrentSizes, v \in {"tracking", "plain"} :
           peer = [NoPeer EXCEPT !.text = t, !.chunkSize = size, !.variant = v,
                                 !.rpc = "start"]

NextConcurrent == Next \/ Yield

SpecConcurrent == InitConcurrent /\ [][NextConcurrent]_vars

(***************************************************************************)
(* The chunker called on its own (it is an exported function): any text    *)
(* and any options with chunkSize >= 1 and chunkOverlap >= 0.              *)
(***************************************************************************)
ChunkTexts == {Rep("a", p) \o s : p \in {0, PadLen}, s \in StringsUpTo(MaxLen)}
ChunkSizes == (1..MaxChunkSize) \cup {BigChunkSize}

\* "First sentence. Second sentence. Third.", with a chunkSize that lands
\* just past "First sentence. "
ExampleText ==
    << "F", "i", "r", "s", "t", " ", "s", "e", "n", "t", "e", "n", "c",
       "e", ".", " ", "S", "e", "c", "o", "n", "d", " ", "s", "e", "n",
       "t", "e", "n", "c", "e", ".", " ", "T", "h", "i", "r", "d", "." >>

\* "aaa aaaa.\naaaaaaaaa": a sentence that ends with a newline after the
\* only space of the text, followed by a long word
ParagraphText ==
    << "a", "a", "a", " ", "a", "a", "a", "a", ".", "\n" >> \o Rep("a", PadLen + 2)

InitChunker ==
    /\ \/ text \in ChunkTexts /\ chunkSize \in ChunkSizes
       \/ text = ExampleText /\ chunkSize = ExampleChunkSize
       \/ text = ParagraphText /\ chunkSize = BigChunkSize
    /\ chunkOverlap \in 0..MaxOverlap
    /\ cpc = "entry"
    /\ startIndex = 0
    /\ chunks = <<>>
    /\ iters = 0
    /\ firstRange = NoRange
    /\ prevRange = NoRange
    /\ lastRange = NoRange
    /\ covered = {}
    /\ variant = "plain"
    /\ rpc = "idle"
    /\ level = 0
    /\ batchStart = 0
    /\ i = 0
    /\ batch = <<>>
    /\ chunkSummaries = <<>>
    /\ levelInputTokens = 0
    /\ levelOutputTokens = 0
    /\ stack = <<>>
    /\ ret = NoRet
    /\ originalLength = 0
    /\ result = NoResult
    /\ error = <<>>
    /\ calls = <<>>
    /\ resps = <<>>
    /\ levelChunks = <<>>
    /\ odd = 0
    /\ peer = NoPeer

NextChunker == ChunkEnter \/ ChunkIter

SpecChunker == InitChunker /\ [][NextChunker]_vars

(***************************************************************************)
(* Properties of the chunker, checked under SpecChunker.                   *)
(***************************************************************************)
ValidOptions == chunkSize >= 1 /\ 0 <= chunkOverlap /\ chunkOverlap < chunkSize
AllIndices == 0..(Len(text) - 1)

\* C1: for every text, chunkSize >= 1 and chunkOverlap >= 0, chunkText
\* terminates: the loop reaches startIndex >= text.length and returns.
\* The loop is a deterministic function of (text, options, startIndex,
\* chunks), so it terminates only if no iteration that stays in the loop
\* leaves the cursor and the chunks as it found them.
C1_ChunkTextTerminates ==
    [][cpc = "loop" => (cpc' = "done" \/ startIndex' # startIndex \/ chunks' # chunks)]_vars

\* C6: chunkText returns [text], untrimmed, exactly when
\* text.length <= chunkSize; for a longer text the result is never [text].
C6_SingleChunkIdentity ==
    cpc = "done" => ((chunks = <<text>>) <=> (Len(text) <= chunkSize))

C6_Witness ==
    /\ cpc = "done"
    /\ Len(text) = chunkSize
    /\ trim(text) # text
    /\ chunks = <<text>>

\* C7: with valid options the ranges [startIndex, endIndex) start at 0, each
\* next range starts at or before the end of the one before it, so the
\* ranges never step over an index; and when chunkText returns the last
\* range ends at text.length and every index of the text lies in some range.
C7_RangesCoverText ==
    ValidOptions =>
        /\ firstRange # NoRange => firstRange.s = 0
        /\ prevRange # NoRange => lastRange.s <= prevRange.e
        /\ \A k \in covered : \A j \in 0..k : j \in covered
        /\ (cpc = "done" /\ Len(text) > chunkSize) =>
               /\ lastRange.e = Len(text)
               /\ covered = AllIndices

C7_Witness ==
    /\ cpc = "done"
    /\ ValidOptions
    /\ chunkOverlap > 0
    /\ iters >= 3
    /\ Len(chunks) < iters
    /\ lastRange.s < prevRange.e
    /\ covered = AllIndices

\* C8: every chunk chunkText collects is at most chunkSize characters long.
C8_ChunkLengthBounded ==
    \A k \in 1..Len(chunks) : Len(chunks[k]) <= chunkSize

C8_Witness ==
    /\ cpc = "done"
    /\ Len(chunks) >= 2
    /\ \E k \in 1..Len(chunks) : Len(chunks[k]) = chunkSize
    /\ \E k \in 1..Len(chunks) : Len(chunks[k]) < chunkSize - 1

\* The function chunkText and the loop of ChunkIter are the same chunker.
ChunkTextAgrees ==
    /\ cpc = "done" => chunkText(text, chunkSize, chunkOverlap) = [hang |-> FALSE, chunks |-> chunks]
    /\ (cpc = "loop" /\ iters = MaxIters) => chunkText(text, chunkSize, chunkOverlap).hang

(***************************************************************************)
(* Properties of the reducer, checked under Spec.                          *)
(***************************************************************************)
TooLong(t) == CHARS_PER_TOKEN * estimateTokenCount(t) > chunkSize
Combined == join(chunkSummaries, Separator)
StubSummaries(n) == join([k \in 1..n |-> <<"s">>], Separator)
AllDefault == \A k \in 1..Len(resps) : resps[k] = DefaultResponse
Reported(x) == IF x = Undefined THEN 0 ELSE x

RECURSIVE SumPrompt(_)
SumPrompt(rs) ==
    IF rs = <<>> THEN 0 ELSE Reported(rs[1].usage.prompt_tokens) + SumPrompt(Tail(rs))

RECURSIVE SumCompletion(_)
SumCompletion(rs) ==
    IF rs = <<>> THEN 0 ELSE Reported(rs[1].usage.completion_tokens) + SumCompletion(Tail(rs))

\* C2: after the chunks of a level are summarized and joined, the reducer
\* calls itself on the joined text at level + 1 exactly when that text is
\* over maxTokens and the level produced more than one chunk; otherwise it
\* sends one final call on the joined text and does not recurse.
C2_RecurseExactlyWhenTooLong ==
    [][rpc = "combine" =>
        IF TooLong(Combined) /\ levelChunks[Len(levelChunks)] > 1
        THEN rpc' = "enter" /\ level' = level + 1 /\ text' = Combined /\ calls' = calls
        ELSE /\ rpc' = "awaitFinal" /\ level' = level
             /\ calls' = Append(calls, [text |-> Combined, kind |-> "final",
                                        level |-> level, index |-> 0])]_vars

\* C3: with a stub that always returns the same placeholder, a text whose
\* reduction needs exactly two levels is reported with recursionLevels = 2
\* and chunksProcessed = the chunks of level 1 plus the chunks of level 2.
C3_TwoLevelsCounted ==
    (rpc = "done" /\ AllDefault /\ stack = <<>>) =>
        LET n1 == Len(chunkText(text, chunkSize, chunkOverlap).chunks)
            second == chunkText(StubSummaries(n1), chunkSize, chunkOverlap)
            n2 == Len(second.chunks)
        IN  (/\ TooLong(text)
             /\ n1 > 1 /\ TooLong(StubSummaries(n1))
             /\ ~second.hang
             /\ ~(n2 > 1 /\ TooLong(StubSummaries(n2))))
            => (result.recursionLevels = 2 /\ result.chunksProcessed = n1 + n2)

\* C4: the inputTokens and outputTokens of a successful reduction are the
\* sums of the counts every call of the reduction reported; three chunk
\* calls and one combine call at 10 in / 5 out give 40 and 20.
C4_TokensAreSums ==
    (rpc = "done" /\ variant = "tracking") =>
        /\ result.inputTokens = SumPrompt(resps)
        /\ result.outputTokens = SumCompletion(resps)

C4_Witness ==
    /\ rpc = "done"
    /\ variant = "tracking"
    /\ AllDefault
    /\ Len(calls) = 4
    /\ \A k \in 1..3 : calls[k].kind = "chunk"
    /\ calls[4].kind = "final"
    /\ result.inputTokens = 40
    /\ result.outputTokens = 20

\* C5: when a chunk call throws, the reduction fails at once: no call is
\* made after it, summarizeText returns no result, and the error it throws
\* contains the message of the original failure.
C5_FailureStopsReduction ==
    \A k \in 1..Len(resps) :
        (resps[k].kind = "throw" /\ calls[k].kind = "chunk") =>
            /\ Len(resps) = k
            /\ Len(calls) = k
            /\ rpc = "failed"
            /\ result = NoResult
            /\ \E j \in 1..Len(error) : error[j] = resps[k].msg

C5_Witness ==
    /\ rpc = "failed"
    /\ levelChunks = <<3>>
    /\ Len(resps) = 2
    /\ resps[2].kind = "throw"
    /\ calls[2].kind = "chunk"
    /\ Len(calls) = 2

\* C9: a text with estimateTokenCount(text) <= chunkSize / 4 is summarized
\* with exactly one call, on the whole text, without the chunker, and the
\* frame returns its own level, a chunk count of 1 and the token counts of
\* that call, 0 for a count the call did not report.
C9_BaseCase ==
    (rpc \notin {"start", "enter"} /\ stack = <<>>
        /\ CHARS_PER_TOKEN * estimateTokenCount(text) <= chunkSize) =>
        /\ rpc \in {"awaitDirect", "return", "done", "failed"}
        /\ Len(calls) = 1
        /\ calls[1].text = text
        /\ levelChunks = <<>>
        /\ rpc = "return" =>
               /\ ret.levels = level
               /\ ret.chunks = 1
               /\ variant = "tracking" =>
                      /\ ret.inputTokens = Reported(resps[1].usage.prompt_tokens)
                      /\ ret.outputTokens = Reported(resps[1].usage.completion_tokens)
        /\ rpc = "done" =>
               /\ result.recursionLevels = 1
               /\ result.chunksProcessed = 1
               /\ variant = "tracking" =>
                      /\ result.inputTokens = Reported(resps[1].usage.prompt_tokens)
                      /\ result.outputTokens = Reported(resps[1].usage.completion_tokens)

C9_Witness ==
    /\ rpc = "done"
    /\ variant = "tracking"
    /\ Len(text) > 0
    /\ CHARS_PER_TOKEN * estimateTokenCount(text) = chunkSize
    /\ Len(calls) = 1
    /\ resps[1].usage.prompt_tokens = Undefined
    /\ result.inputTokens = 0
    /\ result.chunksProcessed = 1

\* C10: a level that split its text into n chunks and did not recurse
\* returns its own level and a chunk count of n.
C10_LevelReturnsItsChunks ==
    [][(rpc = "awaitFinal" /\ rpc' = "return") =>
        /\ ret'.levels = level
        /\ ret'.chunks = levelChunks[level]]_vars

\* C11: with invalid chunking parameters (chunkSize <= 0, or chunkOverlap >=
\* chunkSize) summarizeText fails with a configuration error before any
\* call of the LLM API is made.
C11_InvalidOptionsRejected ==
    (chunkSize <= 0 \/ chunkOverlap >= chunkSize) =>
        /\ calls = <<>>
        /\ result = NoResult
        /\ rpc \notin {"awaitDirect", "awaitChunk", "awaitFinal", "hung"}

\* Requests sent before the running frame was entered.
CallsBefore == Cardinality({j \in 1..Len(calls) : calls[j].level < level})

\* C12: the calls of a reduction are made one at a time and in chunk order:
\* at most one call is in flight, the k-th chunk call of a level is on the
\* k-th chunk and starts after the answer to the call before it, the k-th
\* summary is the summary of the k-th chunk, and the batches of 10 leave
\* the sequence what a plain loop over the chunks makes it.
C12_CallsSequentialInOrder ==
    /\ Len(calls) - Len(resps) \in {0, 1}
    /\ rpc \in {"awaitChunk", "awaitFinal", "awaitDirect"} <=> Len(calls) = Len(resps) + 1
    /\ rpc \in {"awaitChunk", "combine"} =>
           LET sent == Len(calls) - CallsBefore
           IN  /\ sent <= Len(chunks)
               /\ \A k \in 1..sent :
                      /\ calls[CallsBefore + k].kind = "chunk"
                      /\ calls[CallsBefore + k].index = k - 1
                      /\ calls[CallsBefore + k].text = chunks[k]
               /\ Len(chunkSummaries) = Len(resps) - CallsBefore
               /\ \A k \in 1..Len(chunkSummaries) :
                      chunkSummaries[k] = trim(resps[CallsBefore + k].content)
               /\ rpc = "combine" => sent = Len(chunks)

C12_Witness ==
    /\ rpc = "combine"
    /\ variant = "tracking"
    /\ Len(chunks) > BATCH_SIZE
    /\ Len(chunkSummaries) = Len(chunks)
    /\ \E k \in 1..Len(resps) : resps[k] # DefaultResponse

\* C13: the reduction terminates for every summarize function that returns
\* non-empty summaries, also one that never shortens its input: recursion
\* stops once the joined summaries are small enough or no size reduction
\* is possible, so a frame calls itself only on a text shorter than its own.
C13_RecursionOnlyOnShorterText ==
    [][(rpc = "combine" /\ rpc' = "enter") => Len(text') < Len(text)]_vars

\* C14: a result of summarizeText has originalLength = the length of the
\* input text, summaryLength = the length of the summary it carries, and
\* totalTokens = inputTokens + outputTokens.
C14_ResultLengthsAndTotal ==
    rpc = "done" =>
        /\ result.originalLength = Len(text)
        /\ result.summaryLength = Len(result.summary)
        /\ result.summary = trim(resps[Len(resps)].content)
        /\ variant = "tracking" =>
               result.totalTokens = result.inputTokens + result.outputTokens

C14_Witness ==
    /\ rpc = "done"
    /\ variant = "tracking"
    /\ result.originalLength > 0
    /\ result.summaryLength = 5
    /\ result.outputTokens > 0
    /\ result.totalTokens = 45

\* C15: a completion that is empty or only whitespace is a failure with the
\* empty-response message, which no thrown failure carries; its summary is
\* never appended and the reduction makes no step after it.
C15_EmptyCompletionFails ==
    /\ \A k \in 1..Len(chunkSummaries) : chunkSummaries[k] # <<>>
    /\ \A k \in 1..Len(resps) :
           (resps[k].kind = "ok" /\ \A j \in 1..Len(resps[k].content) :
                                       resps[k].content[j] \in Whitespace) =>
               /\ Len(resps) = k
               /\ Len(calls) = k
               /\ rpc = "failed"
               /\ result = NoResult
               /\ error = <<"Failed to summarize chunk: ", "Empty response from LLM">>
               /\ Len(chunkSummaries) < k
    /\ (rpc = "failed" /\ resps[Len(resps)].kind = "throw") =>
           error[2] # "Empty response from LLM"

C15_Witness ==
    /\ rpc = "failed"
    /\ Len(resps) = 3
    /\ resps[3] = Completion(<<" ">>, DefaultUsage)
    /\ calls[3].kind = "chunk"
    /\ Len(chunkSummaries) = 2

(***************************************************************************)
(* Further properties of the chunker, checked under SpecChunker.           *)
(***************************************************************************)
OccursAt(c, p) == p + Len(c) <= Len(text) /\ SubSeq(text, p + 1, p + Len(c)) = c

\* the chunks cs occur in the text at positions that never go back, from on
RECURSIVE InOrder(_, _)
InOrder(cs, from) ==
    IF cs = <<>> THEN TRUE
    ELSE \E p \in from..Len(text) : OccursAt(cs[1], p) /\ InOrder(Tail(cs), p)

Trimmed(c) == c # <<>> /\ c[1] \notin Whitespace /\ c[Len(c)] \notin Whitespace

WhitespaceOnly(t) == \A k \in 1..Len(t) : t[k] \in Whitespace

\* C17 as stated: for an empty or whitespace-only text of any length
\* chunkText returns exactly one chunk, the text unchanged.
C17_WhitespaceTextUnchanged ==
    (cpc = "done" /\ WhitespaceOnly(text)) => chunks = <<text>>

\* C17 as amended: that holds when the text has at most chunkSize
\* characters; a longer whitespace-only text gives no chunk at all.
C17_WhitespaceTextBySize ==
    (cpc = "done" /\ WhitespaceOnly(text)) =>
        IF Len(text) <= chunkSize THEN chunks = <<text>> ELSE chunks = <<>>

C17_Witness ==
    /\ cpc = "done"
    /\ WhitespaceOnly(text)
    /\ Len(text) = chunkSize
    /\ \E k \in 1..Len(text) : text[k] = "\n"
    /\ chunks = <<text>>

Terminators == {".", "!", "?"}

\* The 0-based indices of the sentence terminators that the window of
\* floor(0.2 * chunkSize) characters before the tentative end tent holds
\* together with the space or newline that follows them.
TerminatorsInWindow(tent) ==
    {p \in (tent - (2 * chunkSize) \div 10)..(tent - 2) :
        /\ p >= 0
        /\ text[p + 1] \in Terminators
        /\ text[p + 2] \in Whitespace}

\* C18: when the window before the tentative end of a non-final chunk holds
\* a sentence terminator followed by a space or newline, the range of the
\* chunk ends one past the last such terminator and the chunk ends with it.
C18_SentenceBoundaryPreferred ==
    (lastRange # NoRange /\ lastRange.s + chunkSize < Len(text)) =>
        LET E == TerminatorsInWindow(lastRange.s + chunkSize)
        IN  E # {} =>
                /\ lastRange.e = 1 + CHOOSE p \in E : \A q \in E : q <= p
                /\ chunks # <<>>
                /\ chunks[Len(chunks)][Len(chunks[Len(chunks)])] \in Terminators

C18_Witness ==
    /\ text = ExampleText
    /\ cpc = "done"
    /\ firstRange = [s |-> 0, e |-> 15]
    /\ chunks[1] = SubSeq(ExampleText, 1, 15)
    /\ \E p \in 15..(ExampleChunkSize - 1) : text[p + 1] = " "

(***************************************************************************)
(* Further properties of the reducer, checked under Spec.                  *)
(***************************************************************************)
Cause(r) == IF r.kind = "throw" THEN r.msg ELSE EmptyMessage

ErrorHas(piece) == \E j \in 1..Len(error) : error[j] = piece

\* C19: when a call of the LLM API fails, the error that summarizeText
\* throws carries the cause, the index of the chunk and the recursion level
\* of the failed call, and the failed call is the last call made (no retry).
C19_FailureCarriesIndexAndLevel ==
    rpc = "failed" =>
        LET c == calls[Len(calls)]
        IN  /\ Len(resps) = Len(calls)
            /\ \A k \in 1..(Len(calls) - 1) : calls[k] # c
            /\ ErrorHas(Cause(resps[Len(resps)]))
            /\ ErrorHas(ToString(c.index))
            /\ ErrorHas(ToString(c.level))

(***************************************************************************)
(* Progress of the cursor of chunkText, checked under SpecChunker.         *)
(***************************************************************************)
\* C20: in every iteration of the loop of chunkText the chosen endIndex is
\* greater than the startIndex of the iteration, and the startIndex the
\* iteration leaves is greater than the one it found.
C20_CursorAlwaysAdvances ==
    [][cpc = "loop" => (lastRange'.e > startIndex /\ startIndex' > startIndex)]_vars

(***************************************************************************)
(* The base case of the reducer against the fast path of the chunker,      *)
(* checked under Spec.                                                     *)
(***************************************************************************)
\* C21: for a positive chunkSize the base-case test of the reducer,
\* estimateTokenCount(text) <= chunkSize / 4, holds exactly when
\* text.length <= chunkSize, so that a text that fits in one chunk is sent
\* in a direct call and summarized with that single call.
C21_BaseCaseIsSingleChunkTest ==
    (chunkSize >= 1 /\ stack = <<>> /\ Len(calls) >= 1) =>
        /\ withinMaxTokens(estimateTokenCount(text), chunkSize)
               <=> fitsOneChunk(text, chunkSize)
        /\ fitsOneChunk(text, chunkSize) =>
               /\ calls[1].kind = "direct"
               /\ rpc = "done" => Len(calls) = 1

(***************************************************************************)
(* The cost and the overlap of the chunker, checked under SpecChunker.     *)
(***************************************************************************)
\* C22: for a text longer than chunkSize and valid options the loop of
\* chunkText runs at most text.length / max(1, chunkSize - chunkOverlap)
\* iterations.
C22_IterationsBounded ==
    (ValidOptions /\ Len(text) > chunkSize) =>
        iters * Max(1, chunkSize - chunkOverlap) <= Len(text)

SharedIndices(r1, r2) ==
    {k \in AllIndices : r1.s <= k /\ k < r1.e /\ r2.s <= k /\ k < r2.e}

\* C23: when the end of a range less chunkOverlap is past the start of the
\* range, the next range starts exactly chunkOverlap characters before that
\* end and the two ranges share exactly chunkOverlap characters; otherwise
\* the next range starts at that end and the two share no character.
C23_ConsecutiveRangesShareOverlap ==
    prevRange # NoRange =>
        IF prevRange.e - chunkOverlap > prevRange.s
        THEN /\ lastRange.s = prevRange.e - chunkOverlap
             /\ Cardinality(SharedIndices(prevRange, lastRange)) = chunkOverlap
        ELSE /\ lastRange.s = prevRange.e
             /\ SharedIndices(prevRange, lastRange) = {}

(***************************************************************************)
(* The two versions of the reducer against each other, checked under Spec. *)
(***************************************************************************)
StubSummary == trim(DefaultResponse.content)
NoRun == [ok |-> FALSE, calls |-> <<>>, summary |-> <<>>, levels |-> 0, chunks |-> 0]

\* recursiveSummarize of the plain version (part_001, lines 74-138) as a
\* function of its text, for the summarize stub that answers every call
\* with DefaultResponse under the options of the state: the calls it makes
\* and what it returns. ok is FALSE when chunkText does not return or the
\* recursion goes deeper than MaxLevel.
RECURSIVE plainRecursiveSummarize(_, _)
plainRecursiveSummarize(t, lvl) ==
    IF withinMaxTokens(estimateTokenCount(t), chunkSize)
    THEN [ok |-> TRUE,
          calls |-> << [text |-> t, kind |-> "direct", level |-> lvl, index |-> 0] >>,
          summary |-> StubSummary, levels |-> lvl, chunks |-> 1]
    ELSE LET split == chunkText(t, chunkSize, chunkOverlap)
             n == Len(split.chunks)
             chunkCalls == [k \in 1..n |-> [text |-> split.chunks[k], kind |-> "chunk",
                                            level |-> lvl, index |-> k - 1]]
             combinedSummaries == join([k \in 1..n |-> StubSummary], Separator)
         IN  IF split.hang THEN NoRun
             ELSE IF shouldRecurse(estimateTokenCount(combinedSummaries), chunkSize, n)
             THEN IF lvl >= MaxLevel THEN NoRun
                  ELSE LET sub == plainRecursiveSummarize(combinedSummaries, lvl + 1)
                       IN  [ok |-> sub.ok, calls |-> chunkCalls \o sub.calls,
                            summary |-> sub.summary, levels |-> sub.levels,
                            chunks |-> n + sub.chunks]
             ELSE [ok |-> TRUE,
                   calls |-> Append(chunkCalls, [text |-> combinedSummaries, kind |-> "final",
                                                 level |-> lvl, index |-> 0]),
                   summary |-> StubSummary, levels |-> lvl, chunks |-> n]

\* The plain version run by the actions is the plain version as a function.
PlainRunAgrees ==
    (rpc = "done" /\ variant = "plain" /\ AllDefault) =>
        LET run == plainRecursiveSummarize(text, 1)
        IN  /\ run.ok
            /\ calls = run.calls
            /\ result.summary = run.summary
            /\ result.recursionLevels = run.levels
            /\ result.chunksProcessed = run.chunks

\* C25: for every text, options and deterministic summarize stub, the
\* token-tracking version, which batches and clears its chunks, makes the
\* calls the plain version makes and returns its summary, levels and chunk
\* count.
C25_TrackingEqualsPlain ==
    (rpc = "done" /\ variant = "tracking" /\ AllDefault) =>
        LET run == plainRecursiveSummarize(text, 1)
        IN  /\ run.ok
            /\ calls = run.calls
            /\ result.summary = run.summary
            /\ result.recursionLevels = run.levels
            /\ result.chunksProcessed = run.chunks

(***************************************************************************)
(* Repeated text in the chunks, checked under SpecChunker.                 *)
(***************************************************************************)
\* The iteration with the source range r pushed a chunk.
Emits(r) == r # NoRange /\ trim(slice(text, r.s, r.e)) # <<>>

\* C26: for a text longer than chunkSize and 0 < chunkOverlap < chunkSize, a
\* chunk that follows another has at least one source character past the
\* end of the range of the chunk before it: of two consecutive iterations
\* that push a chunk, the second ends after the first.
C26_NoChunkInsidePrevious ==
    (Len(text) > chunkSize /\ 0 < chunkOverlap /\ chunkOverlap < chunkSize
        /\ Emits(prevRange) /\ Emits(lastRange)) =>
            lastRange.e > prevRange.e

(***************************************************************************)
(* Two requests in one process, checked under SpecConcurrent.              *)
(***************************************************************************)
\* recursiveSummarize of the token-tracking version (part_000, lines 87-184)
\* as a function of its text, for the summarize stub that answers every call
\* with DefaultResponse under the options of the state.
RECURSIVE trackingRecursiveSummarize(_, _)
trackingRecursiveSummarize(t, lvl) ==
    IF withinMaxTokens(estimateTokenCount(t), chunkSize)
    THEN [ok |-> TRUE,
          calls |-> << [text |-> t, kind |-> "direct", level |-> lvl, index |-> 0] >>,
          summary |-> StubSummary, levels |-> lvl, chunks |-> 1]
    ELSE LET split == chunkText(t, chunkSize, chunkOverlap)
             n == Len(split.chunks)
             chunkCalls == [k \in 1..n |-> [text |-> split.chunks[k], kind |-> "chunk",
                                            level |-> lvl, index |-> k - 1]]
             combinedSummaries == join([k \in 1..n |-> StubSummary], Separator)
             cleared == Len(clearChunks("tracking", split.chunks))
         IN  IF split.hang THEN NoRun
             ELSE IF shouldRecurse(estimateTokenCount(combinedSummaries), chunkSize, cleared)
             THEN IF lvl >= MaxLevel THEN NoRun
                  ELSE LET sub == trackingRecursiveSummarize(combinedSummaries, lvl + 1)
                       IN  [ok |-> sub.ok, calls |-> chunkCalls \o sub.calls,
                            summary |-> sub.summary, levels |-> sub.levels,
                            chunks |-> cleared + sub.chunks]
             ELSE [ok |-> TRUE,
                   calls |-> Append(chunkCalls, [text |-> combinedSummaries, kind |-> "final",
                                                 level |-> lvl, index |-> 0]),
                   summary |-> StubSummary, levels |-> lvl, chunks |-> cleared]

\* What the running request does when it runs alone and every call is
\* answered with DefaultResponse.
Alone ==
    IF variant = "tracking" THEN trackingRecursiveSummarize(text, 1)
    ELSE plainRecursiveSummarize(text, 1)

\* The running request has finished with the calls and the result it has
\* when it runs alone.
SameAsAlone ==
    /\ Alone.ok
    /\ calls = Alone.calls
    /\ result.summary = Alone.summary
    /\ result.recursionLevels = Alone.levels
    /\ result.chunksProcessed = Alone.chunks
    /\ variant = "tracking" =>
           /\ result.inputTokens = DefaultUsage.prompt_tokens * Len(Alone.calls)
           /\ result.outputTokens = DefaultUsage.completion_tokens * Len(Alone.calls)

\* A finished request has done what the request as a function does: alone
\* under Spec, beside another request under SpecConcurrent.
AloneAgrees == (rpc = "done" /\ AllDefault) => SameAsAlone

\* C24: two requests whose calls interleave do not interfere: a request
\* that finishes has made the calls and has the result (summary, levels,
\* chunk count, token counts) it has when it runs alone, and a request never
\* keeps the other, which has not started or waits for a response, from
\* running on to its own result.
C24_RequestsDoNotInterfere ==
    /\ (rpc = "done" /\ AllDefault) => SameAsAlone
    /\ rpc = "hung" => peer.rpc \notin Awaiting \cup {"start"}

====
